---- MODULE Spec2Model ----
(***************************************************************************)
(* Order lifecycle of the Yellow Tea backend, reconciled against the       *)
(* Razorpay gateway: the order store, the payment controller               *)
(* (createRazorpayOrder, verifyPayment, processRefund), the webhook        *)
(* controller (payment.captured, payment.failed, refund.processed,         *)
(* order.paid) and the order / admin controllers' status operations.       *)
(*                                                                         *)
(* Money in the order record is a decimal number of rupees; the model      *)
(* keeps it as an integer number of thousandths of a rupee, so that the    *)
(* conversion to paise (Math.round(amount * 100)) really rounds.           *)
(***************************************************************************)
EXTENDS Integers, Sequences, FiniteSets, TLC

VARIABLES
    orders,     \* the Order collection: a sequence, an order's _id is its index
    gwOrders,   \* the gateway's orders: gwOrders[g] is the notes.orderId of gateway order g
    now,        \* Date.now(); every handler that saves an order takes one tick
    last,       \* the last request: operation, target order, response, side effects
    procs       \* requests in flight between their find and their save (SpecRace only)

vars == <<orders, gwOrders, now, last, procs>>

----------------------------------------------------------------------------
(* Bounds *)

MaxClock == 4        \* the handlers that write or call the gateway, per behaviour
MaxOrders == 2       \* the orders of SpecPair
MaxProcs == 2        \* the requests of SpecRace that get as far as their find

----------------------------------------------------------------------------
(* Values *)

Unset == "unset"                 \* undefined: a string path the document does not hold
NoId == 0                        \* undefined, for an order id or a gateway order id
NoAmount == 0                    \* undefined, for an amount
NoSignature == <<>>              \* no signature sent
NoTime == 0                      \* an unset Date

Customers == {"u1", "u2"}         \* the customers who send requests
Buyer == "u1"                    \* the customer whose orders the model follows
Admin == "admin"
Users == Customers \cup {Admin}

role(u) == IF u = Admin THEN "admin" ELSE "user"

\* The ids the gateway gives the orders it creates, in this order.
GatewayOrderIds == {1, 2}

\* The payments customers make at the gateway: id -> the gateway order paid for
\* and the status the gateway reports. A payment exists once its gateway order does.
GatewayPayments ==
    [ pay1 |-> [order_id |-> 1, status |-> "captured"],
      pay2 |-> [order_id |-> 1, status |-> "failed"],
      pay3 |-> [order_id |-> 2, status |-> "captured"] ]

PaymentIds == DOMAIN GatewayPayments

Totals == {709970}               \* 709.97 rupees, in thousandths

EmptyPaymentResult ==
    [id |-> Unset, status |-> Unset, update_time |-> NoTime, razorpay_order_id |-> NoId,
     razorpay_payment_id |-> Unset]

EmptyRefundDetails ==
    [amount |-> NoAmount, id |-> Unset, status |-> Unset, processedBy |-> Unset, reason |-> Unset]

\* A document as Order.create leaves it (schema defaults of order.model.js).
NewOrder(user, method, total, number) ==
    [ user            |-> user,
      paymentMethod   |-> method,
      paymentResult   |-> EmptyPaymentResult,
      totalPrice      |-> total,
      isPaid          |-> FALSE,
      paidAt          |-> NoTime,
      deliveredAt     |-> NoTime,
      status          |-> "pending",
      orderNumber     |-> number,
      razorpayOrderId |-> NoId,
      shiprocketOrderId    |-> Unset,
      shiprocketShipmentId |-> Unset,
      refundStatus    |-> Unset,
      refundDetails   |-> EmptyRefundDetails ]

OrderIds == 1..Len(orders)

\* The response of a request, with the side effects the claims are about.
\* gateway: the gateway call made, "!" appended when it failed; notified: the
\* notification sent; payment: the payment id of the request; saved: order.save() ran.
Response(op, o, code, gw, note, pay, saved) ==
    [op |-> op, order |-> o, code |-> code, gateway |-> gw, notified |-> note, payment |-> pay,
     saved |-> saved]

NoRequest == Response("none", NoId, 0, Unset, Unset, Unset, FALSE)

----------------------------------------------------------------------------
(* razorpay.config.js *)

\* Math.round(amount * 100): rupees (here thousandths) to paise, half up.
formatAmountForRazorpay(amount) == (amount + 5) \div 10

\* amount / 100: paise to rupees (here thousandths).
formatAmountFromRazorpay(amount) == amount * 10

----------------------------------------------------------------------------
(* Mongoose *)

\* Order.findOne({razorpayOrderId: g}): the first order bound to gateway order g.
FindByRazorpayOrderId(g) ==
    LET hits == {o \in OrderIds : orders[o].razorpayOrderId = g}
    IN  IF g = NoId \/ hits = {} THEN NoId
        ELSE CHOOSE o \in hits : \A q \in hits : o <= q

\* Order.findOne({'paymentResult.razorpay_payment_id': p})
FindByPaymentId(p) ==
    LET hits == {o \in OrderIds : orders[o].paymentResult.razorpay_payment_id = p}
    IN  IF p = Unset \/ hits = {} THEN NoId
        ELSE CHOOSE o \in hits : \A q \in hits : o <= q

\* document.save(): writes the paths the request modified since its find (the
\* paths whose value differs from the snapshot read) over the stored document.
save(stored, snapshot, doc) ==
    [f \in DOMAIN stored |-> IF doc[f] # snapshot[f] THEN doc[f] ELSE stored[f]]

Init ==
    /\ orders = <<>>
    /\ gwOrders = <<>>
    /\ now = 1
    /\ last = NoRequest
    /\ procs = <<>>

----------------------------------------------------------------------------
(* Requests *)

\* next(new ApiError(code, ...)): the request ends with an error, nothing written,
\* no gateway call, no notification.
Reject(op, o, code) ==
    /\ last' = Response(op, o, code, Unset, Unset, Unset, FALSE)
    /\ UNCHANGED <<orders, gwOrders, now, procs>>

\* The request that read `snapshot` of order o saves `doc`.
WriteOver(o, snapshot, doc) ==
    orders' = [orders EXCEPT ![o] = save(orders[o], snapshot, doc)]

\* The request wrote `doc` over order o (find, modify, save in one step).
Write(o, doc) == WriteOver(o, orders[o], doc)

\* Ids a client may send: every stored order's, and one that resolves to nothing.
RequestOrderIds == 1..(Len(orders) + 1)

\* crypto.createHmac('sha256', key).update(msg).digest('hex'), as an ideal MAC.
Hmac(key, msg) == <<key, msg>>

KeySecret == "RAZORPAY_KEY_SECRET"
WebhookSecret == "RAZORPAY_WEBHOOK_SECRET"
WrongSecret == "not-the-secret"

\* razorpay.payments.fetch(p): the payment, or "error" when the gateway does not
\* know it.
PaymentsFetch(p) ==
    IF p \in PaymentIds /\ GatewayPayments[p].order_id <= Len(gwOrders)
    THEN GatewayPayments[p]
    ELSE [order_id |-> NoId, status |-> "error"]

----------------------------------------------------------------------------
(* order.controller.js: createOrder *)

\* The counter of the most recently created order, plus one.
NextOrderNumber ==
    IF orders = <<>> THEN 1 ELSE orders[Len(orders)].orderNumber + 1

\* What createShiprocketOrder does: answers with the ids of the order it made,
\* throws, or answers without them.
ShiprocketOutcomes == {"created", "failed", "incomplete"}

\* Lines 180-219: the document after the hand-over to Shiprocket. Only an answer
\* that holds both ids is written to the order.
RegisterShipment(doc, shiprocket) ==
    IF shiprocket = "created"
    THEN [doc EXCEPT !.shiprocketOrderId = "sr_order", !.shiprocketShipmentId = "sr_shipment"]
    ELSE doc

\* createOrder that hands the order to Shiprocket before it stores it.
createOrder_ShipmentFirst(user, method, total, shiprocket) ==
    IF shiprocket = "failed"
    THEN /\ last' = Response("createOrder", NoId, 500, "shiprocket!", Unset, Unset, FALSE)
         /\ UNCHANGED <<orders, gwOrders, now, procs>>
    ELSE /\ orders' = Append(orders, RegisterShipment(
                           NewOrder(user, method, total, NextOrderNumber), shiprocket))
         /\ last' = Response("createOrder", Len(orders) + 1, 201, "shiprocket",
                             "order_placed", Unset, TRUE)
         /\ UNCHANGED <<gwOrders, now, procs>>

createOrder(user, method, total, shiprocket) ==
    /\ orders' = Append(orders, RegisterShipment(
                      NewOrder(user, method, total, NextOrderNumber), shiprocket))
    /\ last' = Response("createOrder", Len(orders) + 1, 201,
                        IF shiprocket = "failed" THEN "shiprocket!" ELSE "shiprocket",
                        "order_placed", Unset, TRUE)
    /\ UNCHANGED <<gwOrders, now, procs>>

----------------------------------------------------------------------------
(* payment.controller.js: createRazorpayOrder *)

\* createRazorpayOrder without its check of a cancelled order.
createRazorpayOrder_OfCancelled(orderId, user, gatewayUp) ==
    LET op == "createRazorpayOrder" IN
    IF orderId = NoId THEN Reject(op, NoId, 400)
    ELSE IF orderId \notin OrderIds THEN Reject(op, NoId, 404)
    ELSE IF orders[orderId].user # user THEN Reject(op, orderId, 403)
    ELSE IF orders[orderId].isPaid THEN Reject(op, orderId, 400)
    ELSE IF ~gatewayUp
    THEN /\ last' = Response(op, orderId, 500, "orders.create!", Unset, Unset, FALSE)
         /\ UNCHANGED <<orders, gwOrders, now, procs>>
    ELSE /\ Len(gwOrders) + 1 \in GatewayOrderIds
         /\ gwOrders' = Append(gwOrders, orderId)
         /\ Write(orderId, [orders[orderId] EXCEPT !.razorpayOrderId = Len(gwOrders) + 1])
         /\ last' = Response(op, orderId, 200, "orders.create", Unset, Unset, TRUE)
         /\ UNCHANGED <<now, procs>>

createRazorpayOrder(orderId, user, gatewayUp) ==
    LET op == "createRazorpayOrder" IN
    IF orderId = NoId THEN Reject(op, NoId, 400)
    ELSE IF orderId \notin OrderIds THEN Reject(op, NoId, 404)
    ELSE IF orders[orderId].user # user THEN Reject(op, orderId, 403)
    ELSE IF orders[orderId].isPaid THEN Reject(op, orderId, 400)
    ELSE IF orders[orderId].status = "cancelled" THEN Reject(op, orderId, 400)
    ELSE IF ~gatewayUp
    THEN \* razorpay.orders.create throws: next(error)
         /\ last' = Response(op, orderId, 500, "orders.create!", Unset, Unset, FALSE)
         /\ UNCHANGED <<orders, gwOrders, now, procs>>
    ELSE /\ Len(gwOrders) + 1 \in GatewayOrderIds
         /\ gwOrders' = Append(gwOrders, orderId)
         /\ Write(orderId, [orders[orderId] EXCEPT !.razorpayOrderId = Len(gwOrders) + 1])
         /\ last' = Response(op, orderId, 200, "orders.create", Unset, Unset, TRUE)
         /\ UNCHANGED <<now, procs>>

----------------------------------------------------------------------------
(* payment.controller.js: verifyPayment *)

\* Lines 93-105: the order the request is about, 0 when none can be named.
ActualOrderId(orderId, razorpay_order_id) ==
    IF orderId # NoId THEN orderId
    ELSE IF razorpay_order_id # NoId THEN FindByRazorpayOrderId(razorpay_order_id)
    ELSE NoId

\* Lines 140-152: the document once the payment is applied.
MarkPaidByVerify(doc, razorpay_order_id, razorpay_payment_id, payment) ==
    [doc EXCEPT
        !.isPaid = TRUE,
        !.paidAt = now,
        !.paymentMethod = "razorpay",
        !.paymentResult =
            [id |-> razorpay_payment_id,
             status |-> "captured",
             update_time |-> now,
             razorpay_order_id |->
                IF razorpay_order_id # NoId THEN razorpay_order_id ELSE payment.order_id,
             razorpay_payment_id |-> razorpay_payment_id],
        !.status = "processing"]

\* Lines 89-131: the checks made until the handler holds the order. code is 0
\* when they pass, and order is then the order found.
VerifyChecks(orderId, razorpay_order_id, razorpay_payment_id, razorpay_signature, user) ==
    LET o == ActualOrderId(orderId, razorpay_order_id) IN
    IF razorpay_payment_id = Unset THEN [code |-> 400, order |-> NoId]
    ELSE IF o = NoId THEN [code |-> 400, order |-> NoId]
    ELSE IF o \notin OrderIds THEN [code |-> 404, order |-> NoId]
    ELSE IF orders[o].user # user THEN [code |-> 403, order |-> o]
    ELSE IF /\ razorpay_order_id # NoId
            /\ razorpay_signature # NoSignature
            /\ razorpay_signature # Hmac(KeySecret, <<razorpay_order_id, razorpay_payment_id>>)
    THEN [code |-> 400, order |-> o]
    ELSE [code |-> 0, order |-> o]

\* Lines 133-176: from razorpay.payments.fetch on, by the request that read
\* `snapshot` of order o at its findById.
\* What the notification dispatcher does with a notification handed to it:
\* it delivers it, or the call fails.
NotificationOutcomes == {"sent", "failed"}

VerifyFetched(o, snapshot, razorpay_order_id, razorpay_payment_id, notification) ==
    LET op == "verifyPayment"
        payment == PaymentsFetch(razorpay_payment_id)
    IN
    IF payment.status = "error"
    THEN \* razorpay.payments.fetch throws: caught at line 173
         /\ last' = Response(op, o, 400, "payments.fetch!", Unset, razorpay_payment_id, FALSE)
         /\ UNCHANGED <<orders, gwOrders, now>>
    ELSE IF payment.status # "captured"
    THEN /\ last' = Response(op, o, 400, "payments.fetch", Unset, razorpay_payment_id, FALSE)
         /\ UNCHANGED <<orders, gwOrders, now>>
    ELSE /\ WriteOver(o, snapshot,
                      MarkPaidByVerify(snapshot, razorpay_order_id, razorpay_payment_id, payment))
         /\ now' = now + 1
         /\ last' = IF notification = "sent"
                    THEN Response(op, o, 200, "payments.fetch", "payment_successful",
                                  razorpay_payment_id, TRUE)
                    ELSE \* await sendUserNotification throws: caught at line 173
                         Response(op, o, 400, "payments.fetch", Unset,
                                  razorpay_payment_id, TRUE)
         /\ UNCHANGED gwOrders

verifyPayment(orderId, razorpay_order_id, razorpay_payment_id, razorpay_signature, user, notification) ==
    LET c == VerifyChecks(orderId, razorpay_order_id, razorpay_payment_id,
                          razorpay_signature, user)
    IN
    IF c.code # 0 THEN Reject("verifyPayment", c.order, c.code)
    ELSE /\ VerifyFetched(c.order, orders[c.order], razorpay_order_id, razorpay_payment_id,
                          notification)
         /\ UNCHANGED procs

\* The signatures a client may send with gateway order g and payment p: none, the
\* one the gateway's checkout gave it, one made without the key secret. A client
\* that sends no razorpay_order_id has no checkout signature to send.
SignatureInputs(g, p) ==
    IF g = NoId THEN {NoSignature, Hmac(WrongSecret, <<g, p>>)}
    ELSE {NoSignature, Hmac(KeySecret, <<g, p>>), Hmac(WrongSecret, <<g, p>>)}

----------------------------------------------------------------------------
(* payment.controller.js: processRefund *)

RefundId == "rfnd_1"

\* RecordRefund that keeps the gateway's amount as it comes, in paise.
RecordRefund_InPaise(doc, paise, reason, user) ==
    [doc EXCEPT
        !.refundStatus = "completed",
        !.refundDetails =
            [amount |-> paise,
             id |-> RefundId,
             status |-> "processed",
             processedBy |-> user,
             reason |-> IF reason # Unset THEN reason ELSE "Customer request"]]

\* Lines 286-296: the document once the gateway has refunded `paise`.
RecordRefund(doc, paise, reason, user) ==
    [doc EXCEPT
        !.refundStatus = "completed",
        !.refundDetails =
            [amount |-> formatAmountFromRazorpay(paise),
             id |-> RefundId,
             status |-> "processed",
             processedBy |-> user,
             reason |-> IF reason # Unset THEN reason ELSE "Customer request"]]

\* Lines 257-265: what the handler requires of the order before it calls the gateway.
RefundAllowed(doc) ==
    /\ doc.isPaid
    /\ doc.paymentResult.razorpay_payment_id # Unset

\* processRefund with the refund recorded before the gateway has answered.
processRefund_RecordsFirst(orderId, refundAmount, reason, user, gatewayUp) ==
    LET op == "processRefund"
        paise == IF refundAmount # NoAmount
                 THEN formatAmountForRazorpay(refundAmount)
                 ELSE formatAmountForRazorpay(orders[orderId].totalPrice)
    IN
    IF orderId = NoId THEN Reject(op, NoId, 400)
    ELSE IF orderId \notin OrderIds THEN Reject(op, NoId, 404)
    ELSE IF ~RefundAllowed(orders[orderId]) THEN Reject(op, orderId, 400)
    ELSE /\ Write(orderId, RecordRefund(orders[orderId], paise, reason, user))
         /\ now' = now + 1
         /\ last' = IF gatewayUp
                    THEN Response(op, orderId, 200, "payments.refund", "refund_processed",
                                  orders[orderId].paymentResult.razorpay_payment_id, TRUE)
                    ELSE Response(op, orderId, 500, "payments.refund!", Unset,
                                  orders[orderId].paymentResult.razorpay_payment_id, TRUE)
         /\ UNCHANGED <<gwOrders, procs>>

processRefund(orderId, refundAmount, reason, user, gatewayUp) ==
    LET op == "processRefund"
        paise == IF refundAmount # NoAmount
                 THEN formatAmountForRazorpay(refundAmount)
                 ELSE formatAmountForRazorpay(orders[orderId].totalPrice)
    IN
    IF orderId = NoId THEN Reject(op, NoId, 400)
    ELSE IF orderId \notin OrderIds THEN Reject(op, NoId, 404)
    ELSE IF ~RefundAllowed(orders[orderId]) THEN Reject(op, orderId, 400)
    ELSE IF ~gatewayUp
    THEN \* razorpay.payments.refund throws: next(error)
         /\ last' = Response(op, orderId, 500, "payments.refund!", Unset,
                             orders[orderId].paymentResult.razorpay_payment_id, FALSE)
         /\ UNCHANGED <<orders, gwOrders, now, procs>>
    ELSE /\ Write(orderId, RecordRefund(orders[orderId], paise, reason, user))
         /\ now' = now + 1
         /\ last' = Response(op, orderId, 200, "payments.refund", "refund_processed",
                             orders[orderId].paymentResult.razorpay_payment_id, TRUE)
         /\ UNCHANGED <<gwOrders, procs>>

----------------------------------------------------------------------------
(* order.controller.js: updateOrderStatus, updateOrderToPaid, cancelOrder,
   processRefund, updateShippingDetails, markCodOrderAsPaid *)

\* `order_${status}`
OrderNote(status) ==
    CASE status = "pending" -> "order_pending"
      [] status = "processing" -> "order_processing"
      [] status = "shipped" -> "order_shipped"
      [] status = "delivered" -> "order_delivered"
      [] status = "cancelled" -> "order_cancelled"

updateOrderStatus(id, status) ==
    LET op == "updateOrderStatus" IN
    IF status = Unset THEN Reject(op, NoId, 400)
    ELSE IF status \notin {"processing", "shipped", "delivered", "cancelled"}
    THEN Reject(op, NoId, 400)
    ELSE IF id \notin OrderIds THEN Reject(op, NoId, 404)
    ELSE /\ Write(id, [orders[id] EXCEPT
                !.status = status,
                !.deliveredAt = IF status = "delivered" THEN now ELSE @,
                !.refundStatus = IF status = "cancelled" /\ orders[id].isPaid
                                 THEN "pending" ELSE @])
         /\ now' = now + 1
         /\ last' = Response(op, id, 200, Unset, OrderNote(status), Unset, TRUE)
         /\ UNCHANGED <<gwOrders, procs>>

\* The bodies a client sends to PUT /orders/:id/pay: paymentId, paymentStatus,
\* paymentMethod and the paymentResult object spread over the first two.
PayBodies ==
    { [paymentId |-> Unset, paymentStatus |-> Unset, paymentMethod |-> Unset,
       razorpay_order_id |-> NoId, razorpay_payment_id |-> Unset],
      [paymentId |-> "manual", paymentStatus |-> "paid", paymentMethod |-> "upi",
       razorpay_order_id |-> NoId, razorpay_payment_id |-> Unset],
      [paymentId |-> "pay1", paymentStatus |-> "captured", paymentMethod |-> "razorpay",
       razorpay_order_id |-> 1, razorpay_payment_id |-> "pay1"] }

updateOrderToPaid(id, body, user) ==
    LET op == "updateOrderToPaid" IN
    IF id \notin OrderIds THEN Reject(op, NoId, 404)
    ELSE IF orders[id].user # user /\ role(user) # "admin" THEN Reject(op, id, 403)
    ELSE /\ Write(id, [orders[id] EXCEPT
                !.isPaid = TRUE,
                !.paidAt = now,
                !.paymentResult =
                    [id |-> body.paymentId,
                     status |-> body.paymentStatus,
                     update_time |-> now,
                     razorpay_order_id |-> body.razorpay_order_id,
                     razorpay_payment_id |-> body.razorpay_payment_id],
                !.paymentMethod = IF body.paymentMethod # Unset THEN body.paymentMethod ELSE @])
         /\ now' = now + 1
         /\ last' = Response(op, id, 200, Unset, "payment_successful", body.paymentId, TRUE)
         /\ UNCHANGED <<gwOrders, procs>>

\* Cancel that also takes the payment off the order.
Cancel_Unpays(doc) ==
    [doc EXCEPT
        !.status = "cancelled",
        !.isPaid = FALSE,
        !.refundStatus = IF doc.isPaid THEN "pending" ELSE @]

\* Lines 576-584: the document once cancelled.
Cancel(doc) ==
    [doc EXCEPT
        !.status = "cancelled",
        !.refundStatus = IF doc.isPaid THEN "pending" ELSE @]

cancelOrder(id, user) ==
    LET op == "cancelOrder" IN
    IF id \notin OrderIds THEN Reject(op, NoId, 404)
    ELSE IF orders[id].user # user /\ role(user) # "admin" THEN Reject(op, id, 403)
    ELSE IF orders[id].status = "delivered" THEN Reject(op, id, 400)
    ELSE IF orders[id].status = "cancelled" THEN Reject(op, id, 400)
    ELSE /\ Write(id, Cancel(orders[id]))
         /\ now' = now + 1
         /\ last' = Response(op, id, 200, Unset, "order_cancelled", Unset, TRUE)
         /\ UNCHANGED <<gwOrders, procs>>

\* PUT /orders/:id/refund: the refund an admin records by hand, no gateway call.
orderProcessRefund(id, refundAmount, user) ==
    LET op == "orderProcessRefund" IN
    IF id \notin OrderIds THEN Reject(op, NoId, 404)
    ELSE IF orders[id].status # "cancelled" THEN Reject(op, id, 400)
    ELSE IF ~orders[id].isPaid THEN Reject(op, id, 400)
    ELSE IF orders[id].refundStatus = "completed" THEN Reject(op, id, 400)
    ELSE /\ Write(id, [orders[id] EXCEPT
                !.refundStatus = "completed",
                !.refundDetails =
                    [amount |-> IF refundAmount # NoAmount THEN refundAmount
                                ELSE orders[id].totalPrice,
                     id |-> Unset,
                     status |-> Unset,
                     processedBy |-> user,
                     reason |-> Unset]])
         /\ now' = now + 1
         /\ last' = Response(op, id, 200, Unset, "refund_processed", Unset, TRUE)
         /\ UNCHANGED <<gwOrders, procs>>

updateShippingDetails(id, shippedAt) ==
    LET op == "updateShippingDetails" IN
    IF id \notin OrderIds THEN Reject(op, NoId, 404)
    ELSE /\ Write(id, [orders[id] EXCEPT !.status = IF shippedAt THEN "shipped" ELSE @])
         /\ now' = now + 1
         /\ last' = Response(op, id, 200, Unset, "order_shipped", Unset, TRUE)
         /\ UNCHANGED <<gwOrders, procs>>

markCodOrderAsPaid(id) ==
    LET op == "markCodOrderAsPaid" IN
    IF id \notin OrderIds THEN Reject(op, NoId, 404)
    ELSE IF orders[id].paymentMethod # "cod" THEN Reject(op, id, 400)
    ELSE IF orders[id].isPaid THEN Reject(op, id, 400)
    ELSE /\ Write(id, [orders[id] EXCEPT
                !.isPaid = TRUE,
                !.paidAt = now,
                !.paymentResult =
                    [id |-> "COD", status |-> "paid", update_time |-> now,
                     razorpay_order_id |-> NoId, razorpay_payment_id |-> Unset]])
         /\ now' = now + 1
         /\ last' = Response(op, id, 200, Unset, "payment_successful", "COD", TRUE)
         /\ UNCHANGED <<gwOrders, procs>>

----------------------------------------------------------------------------
(* admin.controller.js: updateOrderStatus *)

adminUpdateOrderStatus(id, status) ==
    LET op == "adminUpdateOrderStatus" IN
    IF status = Unset THEN Reject(op, NoId, 400)
    ELSE IF status \notin {"pending", "processing", "shipped", "delivered", "cancelled"}
    THEN Reject(op, NoId, 400)
    ELSE IF id \notin OrderIds THEN Reject(op, NoId, 404)
    ELSE /\ Write(id, [orders[id] EXCEPT
                !.status = status,
                !.deliveredAt = IF status = "delivered" THEN now ELSE @])
         /\ now' = now + 1
         /\ last' = Response(op, id, 200, Unset, OrderNote(status), Unset, TRUE)
         /\ UNCHANGED <<gwOrders, procs>>

----------------------------------------------------------------------------
(* webhook.controller.js *)

\* The document once the captured payment is applied (lines 84-95).
MarkPaidByWebhook(doc, payment) ==
    [doc EXCEPT
        !.isPaid = TRUE,
        !.paidAt = now,
        !.paymentMethod = "razorpay",
        !.paymentResult =
            [id |-> payment.id,
             status |-> payment.status,
             update_time |-> now,
             razorpay_order_id |-> payment.order_id,
             razorpay_payment_id |-> payment.id],
        !.status = "processing"]

\* handlePaymentCaptured without its `if (!order.isPaid)`.
handlePaymentCaptured_NoGuard(payment) ==
    LET op == "payment.captured"
        o == FindByRazorpayOrderId(payment.order_id)
    IN
    IF o = NoId
    THEN /\ last' = Response(op, NoId, 200, Unset, Unset, payment.id, FALSE)
         /\ UNCHANGED <<orders, gwOrders, now, procs>>
    ELSE /\ Write(o, MarkPaidByWebhook(orders[o], payment))
         /\ now' = now + 1
         /\ last' = Response(op, o, 200, Unset, Unset, payment.id, TRUE)
         /\ UNCHANGED <<gwOrders, procs>>

\* Lines 83-104: from the `if (!order.isPaid)` on, by the handler that read
\* `snapshot` of order o at its findOne. The module never imports
\* sendUserNotification: the call at line 100 throws a ReferenceError after the
\* save, which the handler's catch logs. No notification.
CapturedFound(o, snapshot, payment) ==
    LET op == "payment.captured" IN
    IF snapshot.isPaid
    THEN /\ last' = Response(op, o, 200, Unset, Unset, payment.id, FALSE)
         /\ UNCHANGED <<orders, gwOrders, now>>
    ELSE /\ WriteOver(o, snapshot, MarkPaidByWebhook(snapshot, payment))
         /\ now' = now + 1
         /\ last' = Response(op, o, 200, Unset, Unset, payment.id, TRUE)
         /\ UNCHANGED gwOrders

handlePaymentCaptured(payment) ==
    LET op == "payment.captured"
        o == FindByRazorpayOrderId(payment.order_id)
    IN
    IF o = NoId
    THEN /\ last' = Response(op, NoId, 200, Unset, Unset, payment.id, FALSE)
         /\ UNCHANGED <<orders, gwOrders, now, procs>>
    ELSE /\ CapturedFound(o, orders[o], payment)
         /\ UNCHANGED procs

\* handlePaymentFailed that records the failed payment and leaves the status.
handlePaymentFailed_NoCancel(payment) ==
    LET op == "payment.failed"
        o == FindByRazorpayOrderId(payment.order_id)
    IN
    IF o = NoId
    THEN /\ last' = Response(op, NoId, 200, Unset, Unset, payment.id, FALSE)
         /\ UNCHANGED <<orders, gwOrders, now, procs>>
    ELSE /\ Write(o, [orders[o] EXCEPT
                !.paymentResult =
                    [id |-> payment.id,
                     status |-> payment.status,
                     update_time |-> now,
                     razorpay_order_id |-> payment.order_id,
                     razorpay_payment_id |-> payment.id]])
         /\ now' = now + 1
         /\ last' = Response(op, o, 200, Unset, "payment_failed", payment.id, TRUE)
         /\ UNCHANGED <<gwOrders, procs>>

handlePaymentFailed(payment) ==
    LET op == "payment.failed"
        o == FindByRazorpayOrderId(payment.order_id)
    IN
    IF o = NoId
    THEN /\ last' = Response(op, NoId, 200, Unset, Unset, payment.id, FALSE)
         /\ UNCHANGED <<orders, gwOrders, now, procs>>
    ELSE /\ Write(o, [orders[o] EXCEPT
                !.status = "cancelled",
                !.paymentResult =
                    [id |-> payment.id,
                     status |-> payment.status,
                     update_time |-> now,
                     razorpay_order_id |-> payment.order_id,
                     razorpay_payment_id |-> payment.id]])
         /\ now' = now + 1
         /\ last' = Response(op, o, 200, Unset, "payment_failed", payment.id, TRUE)
         /\ UNCHANGED <<gwOrders, procs>>

handleRefundProcessed(refund) ==
    LET op == "refund.processed"
        o == FindByPaymentId(refund.payment_id)
    IN
    IF o = NoId
    THEN /\ last' = Response(op, NoId, 200, Unset, Unset, refund.payment_id, FALSE)
         /\ UNCHANGED <<orders, gwOrders, now, procs>>
    ELSE /\ Write(o, [orders[o] EXCEPT
                !.refundStatus = "completed",
                !.refundDetails =
                    [amount |-> refund.amount * 10,    \* refund.amount / 100
                     id |-> refund.id,
                     status |-> refund.status,
                     processedBy |-> Unset,
                     reason |-> IF refund.reason # Unset     \* refund.notes?.reason
                                THEN refund.reason ELSE "Customer request"]])
         /\ now' = now + 1
         /\ last' = Response(op, o, 200, Unset, "refund_processed", refund.payment_id, TRUE)
         /\ UNCHANGED <<gwOrders, procs>>

handleOrderPaid(orderEntity) ==
    LET op == "order.paid"
        o == FindByRazorpayOrderId(orderEntity.id)
    IN
    IF o = NoId
    THEN /\ last' = Response(op, NoId, 200, Unset, Unset, Unset, FALSE)
         /\ UNCHANGED <<orders, gwOrders, now, procs>>
    ELSE IF orders[o].isPaid
    THEN /\ last' = Response(op, o, 200, Unset, Unset, Unset, FALSE)
         /\ UNCHANGED <<orders, gwOrders, now, procs>>
    ELSE /\ Write(o, [orders[o] EXCEPT
                !.isPaid = TRUE,
                !.paidAt = now,
                !.status = "processing"])
         /\ now' = now + 1
         /\ last' = Response(op, o, 200, Unset, Unset, Unset, TRUE)
         /\ UNCHANGED <<gwOrders, procs>>

\* req.body: the event's name and the entity of its payload.
PaymentEvent(kind, p) ==
    [event |-> kind,
     entity |-> [id |-> p, order_id |-> GatewayPayments[p].order_id,
                 status |-> GatewayPayments[p].status]]

RefundEvent(p, paise, reason) ==
    [event |-> "refund.processed",
     entity |-> [id |-> RefundId, payment_id |-> p, amount |-> paise, status |-> "processed",
                 reason |-> reason]]

OrderEvent(g) ==
    [event |-> "order.paid", entity |-> [id |-> g]]

OtherEvent ==
    [event |-> "payment.authorized", entity |-> [id |-> "pay1"]]

\* The request as sent: the event in one of the JSON texts that parse to it,
\* "compact" the text JSON.stringify writes, "escaped" one with the same values
\* written otherwise (a \/ for a /, a \u00e9 for the letter).
Forms == {"compact", "escaped"}

Raw(event, form) == [event |-> event.event, entity |-> event.entity, form |-> form]

\* express.json(): req.body, the value the text parses to.
JsonParse(raw) == [event |-> raw.event, entity |-> raw.entity]

\* JSON.stringify(req.body)
JsonStringify(body) == Raw(body, "compact")

\* handleRazorpayWebhook that answers an event of a kind it does not handle
\* with an error.
handleRazorpayWebhook_StrictKinds(raw, signature) ==
    LET op == "handleRazorpayWebhook"
        body == JsonParse(raw)
    IN
    IF signature = NoSignature THEN Reject(op, NoId, 400)
    ELSE IF signature # Hmac(WebhookSecret, JsonStringify(body)) THEN Reject(op, NoId, 400)
    ELSE CASE body.event = "payment.captured" -> handlePaymentCaptured(body.entity)
           [] body.event = "payment.failed" -> handlePaymentFailed(body.entity)
           [] body.event = "refund.processed" -> handleRefundProcessed(body.entity)
           [] body.event = "order.paid" -> handleOrderPaid(body.entity)
           [] OTHER -> Reject(op, NoId, 400)

handleRazorpayWebhook(raw, signature) ==
    LET op == "handleRazorpayWebhook"
        body == JsonParse(raw)
    IN
    IF signature = NoSignature THEN Reject(op, NoId, 400)
    ELSE IF signature # Hmac(WebhookSecret, JsonStringify(body)) THEN Reject(op, NoId, 400)
    ELSE CASE body.event = "payment.captured" -> handlePaymentCaptured(body.entity)
           [] body.event = "payment.failed" -> handlePaymentFailed(body.entity)
           [] body.event = "refund.processed" -> handleRefundProcessed(body.entity)
           [] body.event = "order.paid" -> handleOrderPaid(body.entity)
           [] OTHER ->
                /\ last' = Response(op, NoId, 200, Unset, Unset, Unset, FALSE)
                /\ UNCHANGED <<orders, gwOrders, now, procs>>

\* The amounts, in paise, the gateway reports as refunded.
RefundPaise == {70997, 1235}

\* The reason in the refund's notes: none, or the one the refund was asked with.
RefundNotes == {Unset, "damaged"}

\* The refunds the gateway reports: the order's total refunded without notes,
\* and a part of it refunded with the reason in the notes.
GatewayRefunds == {<<70997, Unset>>, <<1235, "damaged">>}

\* The events the gateway has cause to send: those of the payments made for the
\* gateway orders it holds, any number of times and in any order.
PaymentsMade == {p \in PaymentIds : GatewayPayments[p].order_id <= Len(gwOrders)}
Captured == {p \in PaymentsMade : GatewayPayments[p].status = "captured"}

GatewayEvents ==
    {PaymentEvent("payment.captured", p) : p \in Captured}
    \cup {PaymentEvent("payment.failed", p) : p \in PaymentsMade \ Captured}
    \cup {RefundEvent(p, r[1], r[2]) : p \in Captured, r \in GatewayRefunds}
    \cup {OrderEvent(GatewayPayments[p].order_id) : p \in Captured}
    \cup {OtherEvent}

\* The texts the events may arrive in.
RawBodies == {Raw(b, f) : b \in GatewayEvents, f \in Forms}

\* Anyone can post to the endpoint: the gateway, signing the text it sends with the
\* webhook secret; a stranger, who does not hold the secret; and someone who
\* resends a signature of the gateway's with the text rewritten on the way.
WebhookSignatures(raw) ==
    {NoSignature, Hmac(WebhookSecret, raw), Hmac(WrongSecret, raw),
     Hmac(WebhookSecret, JsonStringify(JsonParse(raw)))}

----------------------------------------------------------------------------
(* The requests the model sends *)

RefundAmounts == {NoAmount, 100000}
StatusInputs == {Unset, "pending", "processing", "shipped", "delivered", "cancelled", "refunded"}

\* The requests of the handlers the routers mount, whoever sends them.
RoutedRequests ==
    \/ \E o \in RequestOrderIds \cup {NoId}, u \in Customers, up \in BOOLEAN :
          createRazorpayOrder(o, u, up)
    \/ \E o \in RequestOrderIds \cup {NoId}, g \in (1..Len(gwOrders)) \cup {NoId},
          p \in PaymentIds \cup {Unset}, u \in Customers :
          \E s \in SignatureInputs(g, p) : verifyPayment(o, g, p, s, u, "sent")
    \/ \E o \in RequestOrderIds \cup {NoId}, a \in RefundAmounts,
          r \in {Unset, "damaged"}, up \in BOOLEAN : processRefund(o, a, r, Admin, up)
    \/ \E o \in RequestOrderIds, u \in Users : cancelOrder(o, u)
    \/ \E o \in RequestOrderIds, a \in RefundAmounts : orderProcessRefund(o, a, Admin)
    \/ \E o \in RequestOrderIds, sh \in BOOLEAN : updateShippingDetails(o, sh)
    \/ \E o \in RequestOrderIds : markCodOrderAsPaid(o)
    \/ \E o \in RequestOrderIds, st \in StatusInputs : adminUpdateOrderStatus(o, st)
    \/ \E b \in RawBodies : \E s \in WebhookSignatures(b) : handleRazorpayWebhook(b, s)

\* The handlers order.controller.js exports and no router of the repository mounts.
UnroutedRequests ==
    \/ \E o \in RequestOrderIds, st \in StatusInputs : updateOrderStatus(o, st)
    \/ \E o \in RequestOrderIds, b \in PayBodies, u \in Users : updateOrderToPaid(o, b, u)

\* The requests that come while the notification dispatcher is down.
UndeliveredRequests ==
    \E o \in RequestOrderIds \cup {NoId}, g \in (1..Len(gwOrders)) \cup {NoId},
       p \in PaymentIds \cup {Unset}, u \in Customers :
       \E s \in SignatureInputs(g, p) : verifyPayment(o, g, p, s, u, "failed")

\* One order, from checkout on, through every operation of the controllers.
Next ==
    /\ now < MaxClock
    /\ \/ \E m \in {"cod", "razorpay"}, t \in Totals :
             orders = <<>> /\ createOrder(Buyer, m, t, "created")
       \/ RoutedRequests
       \/ UnroutedRequests

Spec == Init /\ [][Next]_vars

\* One order, through the operations the routers expose.
NextRouted ==
    /\ now < MaxClock
    /\ \/ \E m \in {"cod", "razorpay"}, t \in Totals :
             orders = <<>> /\ createOrder(Buyer, m, t, "created")
       \/ RoutedRequests
       \/ UndeliveredRequests

SpecRouted == Init /\ [][NextRouted]_vars

\* Several orders of one customer, through checkout and payment.
NextPair ==
    /\ now < MaxClock
    /\ \/ \E t \in Totals : Len(orders) < MaxOrders /\ createOrder(Buyer, "razorpay", t, "created")
       \/ \E o \in OrderIds, up \in BOOLEAN : createRazorpayOrder(o, Buyer, up)
       \/ \E o \in OrderIds \cup {NoId}, g \in (1..Len(gwOrders)) \cup {NoId},
             p \in PaymentIds :
             \E s \in SignatureInputs(g, p) : verifyPayment(o, g, p, s, Buyer, "sent")
       \/ \E b \in RawBodies : handleRazorpayWebhook(b, Hmac(WebhookSecret, b))

SpecPair == Init /\ [][NextPair]_vars

\* Checkout: the orders customers place, whatever Shiprocket answers, and what
\* they and the staff do with an order before it is paid for at the gateway.
NextCheckout ==
    /\ now < MaxClock
    /\ \/ \E u \in Customers, m \in {"cod", "razorpay"}, t \in Totals,
             sr \in ShiprocketOutcomes :
             Len(orders) < MaxOrders /\ createOrder(u, m, t, sr)
       \/ \E o \in OrderIds, u \in Customers : cancelOrder(o, u)
       \/ \E o \in OrderIds : markCodOrderAsPaid(o)

SpecCheckout == Init /\ [][NextCheckout]_vars

\* One order, brought by its customer and the staff to every state of payment
\* and of fulfilment, and every request the webhook endpoint may be sent.
NextWebhook ==
    /\ now < MaxClock
    /\ \/ \E m \in {"cod", "razorpay"}, t \in Totals :
             orders = <<>> /\ createOrder(Buyer, m, t, "created")
       \/ \E o \in OrderIds, up \in BOOLEAN : createRazorpayOrder(o, Buyer, up)
       \/ \E g \in 1..Len(gwOrders), p \in PaymentIds :
             verifyPayment(NoId, g, p, Hmac(KeySecret, <<g, p>>), Buyer, "sent")
       \/ \E o \in OrderIds, st \in StatusInputs : adminUpdateOrderStatus(o, st)
       \/ \E o \in OrderIds : cancelOrder(o, Buyer)
       \/ \E o \in OrderIds : markCodOrderAsPaid(o)
       \/ \E o \in OrderIds, up \in BOOLEAN : processRefund(o, NoAmount, Unset, Admin, up)
       \/ \E b \in RawBodies : \E s \in WebhookSignatures(b) : handleRazorpayWebhook(b, s)

SpecWebhook == Init /\ [][NextWebhook]_vars

\* One order and every handler that writes to it, each called the way its
\* checks let through: by the order's owner or the staff, with the gateway's
\* signatures, whatever the gateway and the notification dispatcher answer.
NextHandlers ==
    /\ now < MaxClock
    /\ \/ \E m \in {"cod", "razorpay"}, t \in Totals :
             orders = <<>> /\ createOrder(Buyer, m, t, "created")
       \/ \E o \in OrderIds, up \in BOOLEAN : createRazorpayOrder(o, Buyer, up)
       \/ \E g \in 1..Len(gwOrders), p \in PaymentIds, n \in NotificationOutcomes :
             verifyPayment(NoId, g, p, Hmac(KeySecret, <<g, p>>), Buyer, n)
       \/ \E o \in OrderIds, b \in PayBodies : updateOrderToPaid(o, b, Buyer)
       \/ \E o \in OrderIds : markCodOrderAsPaid(o)
       \/ \E o \in OrderIds, u \in {Buyer, Admin} : cancelOrder(o, u)
       \/ \E o \in OrderIds, st \in StatusInputs : updateOrderStatus(o, st)
       \/ \E o \in OrderIds, st \in StatusInputs : adminUpdateOrderStatus(o, st)
       \/ \E o \in OrderIds, sh \in BOOLEAN : updateShippingDetails(o, sh)
       \/ \E o \in OrderIds, a \in RefundAmounts, r \in RefundNotes, up \in BOOLEAN :
             processRefund(o, a, r, Admin, up)
       \/ \E o \in OrderIds, a \in RefundAmounts : orderProcessRefund(o, a, Admin)
       \/ \E b \in RawBodies : handleRazorpayWebhook(b, Hmac(WebhookSecret, b))

SpecHandlers == Init /\ [][NextHandlers]_vars

----------------------------------------------------------------------------
(* Requests in flight: a handler gives way at each await, so another request's
   find and save may fall between one request's find and its save. *)

\* The request that has just read order o, with the requests in flight then.
Proc(op, o, razorpay_order_id, razorpay_payment_id) ==
    [op |-> op, order |-> o, snapshot |-> orders[o],
     razorpay_order_id |-> razorpay_order_id, payment |-> razorpay_payment_id,
     during |-> {i \in DOMAIN procs : ~procs[i].done},
     done |-> FALSE, saved |-> FALSE, notified |-> Unset]

\* A request in flight ends: what its last step saved and sent is kept.
Finish(i) ==
    procs' = [procs EXCEPT ![i].done = TRUE, ![i].saved = last'.saved,
                           ![i].notified = last'.notified]

\* verifyPayment, up to `await Order.findById(actualOrderId)` and the checks on
\* what it returned (lines 77-131).
verifyPayment_find(orderId, razorpay_order_id, razorpay_payment_id, razorpay_signature, user) ==
    LET c == VerifyChecks(orderId, razorpay_order_id, razorpay_payment_id,
                          razorpay_signature, user)
    IN
    IF c.code # 0 THEN Reject("verifyPayment", c.order, c.code)
    ELSE /\ Len(procs) < MaxProcs
         /\ procs' = Append(procs, Proc("verifyPayment", c.order, razorpay_order_id,
                                        razorpay_payment_id))
         /\ UNCHANGED <<orders, gwOrders, now, last>>

\* verifyPayment, from `await razorpay.payments.fetch` to the response (133-176).
verifyPayment_save(i) ==
    /\ procs[i].op = "verifyPayment"
    /\ ~procs[i].done
    /\ VerifyFetched(procs[i].order, procs[i].snapshot, procs[i].razorpay_order_id,
                     procs[i].payment, "sent")
    /\ Finish(i)

\* handleRazorpayWebhook for a payment.captured event, up to handlePaymentCaptured's
\* `await Order.findOne` (lines 12-81).
handleRazorpayWebhook_find(raw, signature) ==
    LET op == "handleRazorpayWebhook"
        body == JsonParse(raw)
        o == FindByRazorpayOrderId(body.entity.order_id)
    IN
    /\ body.event = "payment.captured"
    /\ IF signature = NoSignature THEN Reject(op, NoId, 400)
       ELSE IF signature # Hmac(WebhookSecret, JsonStringify(body)) THEN Reject(op, NoId, 400)
       ELSE IF o = NoId
       THEN /\ last' = Response("payment.captured", NoId, 200, Unset, Unset,
                                body.entity.id, FALSE)
            /\ UNCHANGED <<orders, gwOrders, now, procs>>
       ELSE /\ Len(procs) < MaxProcs
            /\ procs' = Append(procs, Proc("payment.captured", o, body.entity.order_id,
                                           body.entity.id))
            /\ UNCHANGED <<orders, gwOrders, now, last>>

\* handlePaymentCaptured, from its `if (!order.isPaid)` to its end (83-109).
handlePaymentCaptured_save(i) ==
    /\ procs[i].op = "payment.captured"
    /\ ~procs[i].done
    /\ CapturedFound(procs[i].order, procs[i].snapshot,
                     PaymentEvent("payment.captured", procs[i].payment).entity)
    /\ Finish(i)

\* cancelOrder, up to `await Order.findById(id)` and the checks on what it
\* returned (lines 551-574).
cancelOrder_find(id, user) ==
    LET op == "cancelOrder" IN
    IF id \notin OrderIds THEN Reject(op, NoId, 404)
    ELSE IF orders[id].user # user /\ role(user) # "admin" THEN Reject(op, id, 403)
    ELSE IF orders[id].status = "delivered" THEN Reject(op, id, 400)
    ELSE IF orders[id].status = "cancelled" THEN Reject(op, id, 400)
    ELSE /\ Len(procs) < MaxProcs
         /\ procs' = Append(procs, Proc(op, id, NoId, Unset))
         /\ UNCHANGED <<orders, gwOrders, now, last>>

\* cancelOrder, from its assignments to the response (lines 576-614).
cancelOrder_save(i) ==
    /\ procs[i].op = "cancelOrder"
    /\ ~procs[i].done
    /\ WriteOver(procs[i].order, procs[i].snapshot, Cancel(procs[i].snapshot))
    /\ now' = now + 1
    /\ last' = Response("cancelOrder", procs[i].order, 200, Unset, "order_cancelled",
                        Unset, TRUE)
    /\ Finish(i)
    /\ UNCHANGED gwOrders

\* One order, its checkout, and the confirmations of its payment and its
\* cancellation in flight.
NextRace ==
    /\ now < MaxClock
    /\ \/ \E t \in Totals : orders = <<>> /\ createOrder(Buyer, "razorpay", t, "created")
       \/ \E o \in OrderIds, up \in BOOLEAN : createRazorpayOrder(o, Buyer, up)
       \/ \E o \in OrderIds \cup {NoId}, g \in (1..Len(gwOrders)) \cup {NoId},
             p \in PaymentIds, u \in Customers :
             \E s \in SignatureInputs(g, p) : verifyPayment_find(o, g, p, s, u)
       \/ \E i \in DOMAIN procs : verifyPayment_save(i)
       \/ \E p \in Captured :
             LET b == Raw(PaymentEvent("payment.captured", p), "compact") IN
             \E s \in WebhookSignatures(b) : handleRazorpayWebhook_find(b, s)
       \/ \E i \in DOMAIN procs : handlePaymentCaptured_save(i)
       \/ \E o \in RequestOrderIds, u \in Customers : cancelOrder_find(o, u)
       \/ \E i \in DOMAIN procs : cancelOrder_save(i)

SpecRace == Init /\ [][NextRace]_vars

\* createOrder, up to `await Order.findOne().sort({created_at: -1})` and the
\* order number made of what it returned (lines 15-128): the request holds the
\* document it is about to create.
createOrder_find(user, method, total) ==
    /\ Len(procs) < MaxProcs
    /\ Len(orders) < MaxOrders
    /\ procs' = Append(procs,
                       [op |-> "createOrder", order |-> NoId,
                        snapshot |-> NewOrder(user, method, total, NextOrderNumber),
                        razorpay_order_id |-> NoId, payment |-> Unset,
                        during |-> {i \in DOMAIN procs : ~procs[i].done},
                        done |-> FALSE, saved |-> FALSE, notified |-> Unset])
    /\ UNCHANGED <<orders, gwOrders, now, last>>

\* createOrder_create on a collection without the unique index on orderNumber.
createOrder_create_NoIndex(i, shiprocket) ==
    /\ procs[i].op = "createOrder"
    /\ ~procs[i].done
    /\ orders' = Append(orders, RegisterShipment(procs[i].snapshot, shiprocket))
    /\ last' = Response("createOrder", Len(orders) + 1, 201,
                        IF shiprocket = "failed" THEN "shiprocket!" ELSE "shiprocket",
                        "order_placed", Unset, TRUE)
    /\ Finish(i)
    /\ UNCHANGED <<gwOrders, now>>

\* createOrder, from `await Order.create` to the response (lines 158-238). The
\* collection has a unique index on orderNumber (order.model.js 114-118): the
\* insert of a number already stored throws, and the handler passes it to next.
createOrder_create(i, shiprocket) ==
    /\ procs[i].op = "createOrder"
    /\ ~procs[i].done
    /\ IF \E o \in OrderIds : orders[o].orderNumber = procs[i].snapshot.orderNumber
       THEN /\ last' = Response("createOrder", NoId, 500, Unset, Unset, Unset, FALSE)
            /\ UNCHANGED orders
       ELSE /\ orders' = Append(orders, RegisterShipment(procs[i].snapshot, shiprocket))
            /\ last' = Response("createOrder", Len(orders) + 1, 201,
                                IF shiprocket = "failed" THEN "shiprocket!" ELSE "shiprocket",
                                "order_placed", Unset, TRUE)
    /\ Finish(i)
    /\ UNCHANGED <<gwOrders, now>>

\* Checkout requests in flight, of any customer, beside one that runs alone.
NextNumbers ==
    \/ \E u \in Customers, m \in {"cod", "razorpay"}, t \in Totals :
          createOrder_find(u, m, t)
    \/ \E i \in DOMAIN procs, sh \in ShiprocketOutcomes : createOrder_create(i, sh)
    \/ \E u \in Customers, t \in Totals :
          /\ Len(orders) < MaxOrders
          /\ \A i \in DOMAIN procs : procs[i].done
          /\ createOrder(u, "cod", t, "created")

SpecNumbers == Init /\ [][NextNumbers]_vars

----------------------------------------------------------------------------
(* Claims *)

\* The order a response is about, when it is about a stored one.
Target(r) == r.order \in OrderIds

\* C1: verifyPayment called again with the payment id the order is already paid
\* with is a no-op: the order (paidAt, paymentResult, status) is left as it is
\* and no payment_successful notification is sent.
C1_ConfirmAgainIsNoOp ==
    [][ ( /\ last'.op = "verifyPayment"
          /\ Target(last')
          /\ orders[last'.order].isPaid
          /\ orders[last'.order].paymentResult.id = last'.payment )
        => ( orders' = orders /\ last'.notified = Unset ) ]_vars

\* C2: when verifyPayment and the payment.captured webhook confirm the same
\* payment of the same order at the same time, only one of the two saves the paid
\* transition and sends payment_successful, however their finds and saves fall.
C2_PaidOnceWhenRaced ==
    \A i, j \in DOMAIN procs :
        ( /\ i \in procs[j].during
          /\ procs[i].op # procs[j].op
          /\ procs[i].order = procs[j].order
          /\ procs[i].payment = procs[j].payment
          /\ procs[i].done /\ procs[j].done )
        => ( /\ ~(procs[i].saved /\ procs[j].saved)
             /\ ~(procs[i].notified # Unset /\ procs[j].notified # Unset) )

\* C3: a payment.captured or order.paid event for an order already paid leaves
\* the order as it is and sends no notification.
C3_WebhookOnPaidOrderIsNoOp ==
    [][ ( /\ last'.op \in {"payment.captured", "order.paid"}
          /\ Target(last')
          /\ orders[last'.order].isPaid )
        => ( orders' = orders /\ ~last'.saved /\ last'.notified = Unset ) ]_vars

\* C3's case: a payment.captured event has just been handled for an order that
\* was paid before it came.
C3_Witness ==
    /\ last.op = "payment.captured"
    /\ Target(last)
    /\ ~last.saved
    /\ orders[last.order].isPaid
    /\ orders[last.order].paymentResult.razorpay_payment_id # Unset

\* C4: a paid order holds a payment id in paymentResult.id, and an unpaid order
\* holds no paidAt.
C4_PaidHasPaymentId ==
    \A o \in OrderIds :
        /\ orders[o].isPaid => orders[o].paymentResult.id # Unset
        /\ ~orders[o].isPaid => orders[o].paidAt = NoTime

\* C5: a delivered order is a paid order.
C5_DeliveredIsPaid ==
    \A o \in OrderIds : orders[o].status = "delivered" => orders[o].isPaid

\* C6: the step that cancels a paid order leaves it with a refund sub-record.
C6_CancelPaidOpensRefund ==
    [][ \A o \in OrderIds :
          ( /\ orders[o].isPaid
            /\ orders[o].status # "cancelled"
            /\ orders'[o].status = "cancelled" )
          => orders'[o].refundStatus # Unset ]_vars

\* C7: once an order is bound to a gateway order id, the binding never changes.
C7_OneGatewayOrderId ==
    [][ \A o \in OrderIds :
          orders[o].razorpayOrderId # NoId
          => orders'[o].razorpayOrderId = orders[o].razorpayOrderId ]_vars

\* C8: no two orders are paid with the same gateway payment id.
C8_OneOrderPerPayment ==
    \A o, q \in OrderIds :
        ( /\ o # q
          /\ orders[o].isPaid /\ orders[q].isPaid
          /\ orders[o].paymentResult.razorpay_payment_id # Unset )
        => orders[o].paymentResult.razorpay_payment_id
               # orders[q].paymentResult.razorpay_payment_id

\* C9: processRefund calls the gateway's refund only for an order that is paid,
\* holds a gateway payment id and has no completed refund.
C9_RefundOnlyOnce ==
    [][ ( /\ last'.op = "processRefund"
          /\ last'.gateway \in {"payments.refund", "payments.refund!"} )
        => ( /\ Target(last')
             /\ orders[last'.order].isPaid
             /\ orders[last'.order].paymentResult.razorpay_payment_id # Unset
             /\ orders[last'.order].refundStatus # "completed" ) ]_vars

\* C10: when the gateway's refund call fails, processRefund writes nothing (the
\* refund fields are those of before), notifies nobody and answers with an error.
C10_FailedRefundWritesNothing ==
    [][ ( /\ last'.op = "processRefund"
          /\ last'.gateway = "payments.refund!" )
        => ( /\ orders' = orders
             /\ ~last'.saved
             /\ last'.notified = Unset
             /\ last'.code >= 400 ) ]_vars

\* C10's case: the gateway has just failed a refund the handler let through.
C10_Witness ==
    /\ last.op = "processRefund"
    /\ last.gateway = "payments.refund!"
    /\ Target(last)
    /\ RefundAllowed(orders[last.order])

\* The statuses the specification calls terminal.
Terminal == {"delivered", "cancelled"}

\* C11: a cancellation of an order already delivered or cancelled, by cancelOrder
\* or by either updateOrderStatus with status cancelled, is answered with an
\* error, changes nothing of the order and sends no notification.
C11_CancelOfTerminalRejected ==
    [][ \A o \in OrderIds :
          ( /\ orders[o].status \in Terminal
            /\ \/ \E u \in Users : cancelOrder(o, u)
               \/ updateOrderStatus(o, "cancelled")
               \/ adminUpdateOrderStatus(o, "cancelled") )
          => ( /\ last'.code >= 400
               /\ orders' = orders
               /\ last'.notified = Unset ) ]_vars

\* C12: once an order is delivered or cancelled, no step changes its status.
C12_TerminalStatusStays ==
    [][ \A o \in OrderIds :
          orders[o].status \in Terminal => orders'[o].status = orders[o].status ]_vars

\* The names the webhook's responses go by: the handler's, for a request it
\* rejects or ignores, and the event's, for one it dispatches.
WebhookOps ==
    {"handleRazorpayWebhook", "payment.captured", "payment.failed", "refund.processed",
     "order.paid"}

\* C13: a webhook request with no signature, or with a signature that is not the
\* HMAC of the text received under the webhook secret, is rejected before any
\* event handler runs: it is answered 400 and no order is written.
C13_UnsignedWebhookRejected ==
    [][ last'.op \in WebhookOps =>
        \A raw \in RawBodies : \A s \in WebhookSignatures(raw) :
          ( /\ s # Hmac(WebhookSecret, raw)
            /\ handleRazorpayWebhook(raw, s) )
          => ( /\ last'.op = "handleRazorpayWebhook"
               /\ last'.code = 400
               /\ ~last'.saved
               /\ orders' = orders ) ]_vars

\* The order a webhook event resolves to, 0 when it resolves to none.
Resolves(body) ==
    CASE body.event \in {"payment.captured", "payment.failed"} ->
             FindByRazorpayOrderId(body.entity.order_id)
      [] body.event = "refund.processed" -> FindByPaymentId(body.entity.payment_id)
      [] body.event = "order.paid" -> FindByRazorpayOrderId(body.entity.id)
      [] OTHER -> NoId

\* The requests the handler's signature check lets through.
Authenticated == {JsonStringify(b) : b \in GatewayEvents}

\* C14: an authenticated webhook event of a kind no handler takes, or one that
\* resolves to no order, is answered 200, writes no order and notifies nobody.
C14_IgnoredEventAcknowledged ==
    [][ last'.op \in WebhookOps =>
          \A raw \in Authenticated :
              ( /\ Resolves(JsonParse(raw)) = NoId
                /\ handleRazorpayWebhook(raw, Hmac(WebhookSecret, raw)) )
              => ( /\ last'.code = 200
                   /\ ~last'.saved
                   /\ orders' = orders
                   /\ last'.notified = Unset ) ]_vars

\* C14's case: a payment.captured event of the gateway has just been acknowledged
\* though the order it was made for is no longer bound to its gateway order.
C14_Witness ==
    /\ last.op = "payment.captured"
    /\ last.order = NoId
    /\ last.code = 200
    /\ last.payment \in Captured
    /\ orders # <<>>

\* C15: an authenticated payment.failed event for an order never paid leaves it
\* cancelled, with the failed payment in paymentResult, still unpaid and with no
\* paidAt.
C15_FailedPaymentCancelsUnpaid ==
    [][ last'.op = "payment.failed" =>
        \A p \in PaymentsMade \ Captured :
          LET body == PaymentEvent("payment.failed", p)
              raw == JsonStringify(body)
              o == Resolves(body)
          IN  ( /\ o # NoId
                /\ ~orders[o].isPaid
                /\ handleRazorpayWebhook(raw, Hmac(WebhookSecret, raw)) )
              => ( /\ orders'[o].status = "cancelled"
                   /\ orders'[o].paymentResult.id = body.entity.id
                   /\ orders'[o].paymentResult.status = "failed"
                   /\ ~orders'[o].isPaid
                   /\ orders'[o].paidAt = NoTime ) ]_vars

\* C15's case: a payment.failed event has just cancelled an unpaid order.
C15_Witness ==
    /\ last.op = "payment.failed"
    /\ Target(last)
    /\ last.saved
    /\ ~orders[last.order].isPaid
    /\ orders[last.order].status = "cancelled"
    /\ orders[last.order].paymentResult.status = "failed"

\* C16: verifyPayment marks an order paid only when the order exists, is the
\* caller's, the signature sent (if one is sent) is the HMAC of
\* razorpay_order_id|razorpay_payment_id under the key secret, and the gateway
\* reports the payment captured; otherwise it answers with an error and leaves
\* the orders as they are.
C16_ConfirmOnlyWhenVerified ==
    [][ last'.op = "verifyPayment" =>
        \A o \in RequestOrderIds \cup {NoId}, g \in (1..Len(gwOrders)) \cup {NoId},
           p \in PaymentIds \cup {Unset}, u \in Customers :
          \A sig \in SignatureInputs(g, p), n \in NotificationOutcomes :
            LET a == ActualOrderId(o, g) IN
            ( /\ verifyPayment(o, g, p, sig, u, n)
              /\ ~( /\ a \in OrderIds
                    /\ orders[a].user = u
                    /\ sig \in {NoSignature, Hmac(KeySecret, <<g, p>>)}
                    /\ PaymentsFetch(p).status = "captured" ) )
            => ( last'.code >= 400 /\ orders' = orders ) ]_vars

\* C17: createRazorpayOrder for an order that is not the requester's, is paid
\* or is cancelled is answered with an error: the gateway is not called and the
\* order, its razorpayOrderId with it, stays as it is.
C17_IntentRefused ==
    [][ last'.op = "createRazorpayOrder" =>
        \A o \in OrderIds, u \in Customers, up \in BOOLEAN :
          ( /\ \/ orders[o].user # u
               \/ orders[o].isPaid
               \/ orders[o].status = "cancelled"
            /\ createRazorpayOrder(o, u, up) )
          => ( /\ last'.code >= 400
               /\ last'.gateway = Unset
               /\ gwOrders' = gwOrders
               /\ orders' = orders ) ]_vars

\* C17's case: a payment intent has just been refused for a cancelled, unpaid
\* order of the requester.
C17_Witness ==
    /\ last.op = "createRazorpayOrder"
    /\ last.code = 400
    /\ Target(last)
    /\ orders[last.order].status = "cancelled"
    /\ ~orders[last.order].isPaid

C19_CheckoutToRefund ==
    [][ \A o \in OrderIds :
        LET doc == orders[o]
            g == doc.razorpayOrderId
        IN
        /\ ( /\ ~doc.isPaid /\ doc.status = "pending" /\ g = NoId
             /\ createRazorpayOrder(o, doc.user, TRUE) )
           => ( last'.code = 200 /\ orders'[o].razorpayOrderId # NoId )
        /\ \A p \in Captured :
             ( /\ ~doc.isPaid /\ doc.status = "pending" /\ g # NoId
               /\ GatewayPayments[p].order_id = g
               /\ verifyPayment(NoId, g, p, Hmac(KeySecret, <<g, p>>), doc.user, "sent") )
             => ( /\ last'.code = 200
                  /\ orders'[o].isPaid
                  /\ orders'[o].status = "processing" )
        /\ ( /\ doc.isPaid /\ doc.status = "processing"
             /\ cancelOrder(o, doc.user) )
           => ( /\ last'.code = 200
                /\ orders'[o].status = "cancelled"
                /\ orders'[o].refundStatus = "pending" )
        /\ ( /\ doc.isPaid /\ doc.status = "cancelled" /\ doc.refundStatus = "pending"
             /\ doc.paymentResult.razorpay_payment_id # Unset
             /\ processRefund(o, NoAmount, Unset, Admin, TRUE) )
           => ( /\ last'.code = 200
                /\ orders'[o].refundStatus = "completed"
                /\ orders'[o].refundDetails.amount = doc.totalPrice ) ]_vars

\* C19's case: the order of 709.97, paid at the gateway and cancelled, has just
\* been refunded in full.
C19_Witness ==
    /\ last.op = "processRefund"
    /\ last.code = 200
    /\ Target(last)
    /\ orders[last.order].totalPrice = 709970
    /\ orders[last.order].isPaid
    /\ orders[last.order].paymentResult.razorpay_payment_id # Unset
    /\ orders[last.order].status = "cancelled"
    /\ orders[last.order].refundStatus = "completed"
    /\ orders[last.order].refundDetails.amount = 709970

\* C20: when the gateway delivers, signed, the payment.captured event of a
\* payment made for a gateway order that createRazorpayOrder issued for an order,
\* and no confirmation has marked that order paid, the event leaves the order
\* paid and processing -- for every gateway order issued for it.
C20_WebhookMarksPaid ==
    [][ last'.op \in WebhookOps =>
        \A p \in Captured :
          LET raw == JsonStringify(PaymentEvent("payment.captured", p))
              o == gwOrders[GatewayPayments[p].order_id]
          IN  ( /\ ~orders[o].isPaid
                /\ handleRazorpayWebhook(raw, Hmac(WebhookSecret, raw)) )
              => ( orders'[o].isPaid /\ orders'[o].status = "processing" ) ]_vars

\* C21: the step that changes an order's status or marks it paid sends a
\* notification to its user.
C21_ChangeIsNotified ==
    [][ \A o \in OrderIds :
          ( \/ orders'[o].status # orders[o].status
            \/ orders'[o].isPaid # orders[o].isPaid )
          => last'.notified # Unset ]_vars

\* C22: the refund-processed event of a refund the order already records as
\* completed, with the same refund id and amount, leaves the order as it is and
\* sends no further refund notification.
C22_RefundEventAgainIsNoOp ==
    [][ last'.op = "refund.processed" =>
        \A p \in Captured, a \in RefundPaise, r \in RefundNotes :
          LET raw == JsonStringify(RefundEvent(p, a, r))
              o == FindByPaymentId(p)
          IN  ( /\ o # NoId
                /\ orders[o].refundStatus = "completed"
                /\ orders[o].refundDetails.id = RefundId
                /\ orders[o].refundDetails.amount = formatAmountFromRazorpay(a)
                /\ handleRazorpayWebhook(raw, Hmac(WebhookSecret, raw)) )
              => ( /\ orders'[o].refundStatus = orders[o].refundStatus
                   /\ orders'[o].refundDetails = orders[o].refundDetails
                   /\ last'.notified = Unset ) ]_vars

\* C23: a payment applied by verifyPayment, by the payment-captured event or by
\* the order-paid event moves a pending order to processing and leaves an order
\* in any other status in that status.
PaymentOps == {"verifyPayment", "payment.captured", "order.paid"}

C23_PaymentOnlyMovesPending ==
    [][ ( /\ last'.op \in PaymentOps
          /\ last'.saved
          /\ last'.order \in OrderIds )
        => LET o == last'.order
           IN  orders'[o].status =
                 IF orders[o].status = "pending" THEN "processing" ELSE orders[o].status ]_vars

\* C24: a verifyPayment call that marks the order paid answers its caller with
\* success, also when the notification that follows the save fails.
C24_PaidAnswersSuccess ==
    [][ ( /\ last'.op = "verifyPayment"
          /\ last'.order \in OrderIds
          /\ last'.saved )
        => last'.code = 200 ]_vars

\* C25: no two stored orders have the same order number, and of two createOrder
\* requests that made the same number from the same most recent order at most
\* one stores its order.
C25_OrderNumbersDiffer ==
    /\ \A o, q \in OrderIds : o # q => orders[o].orderNumber # orders[q].orderNumber
    /\ \A i, j \in DOMAIN procs :
          ( /\ i # j
            /\ procs[i].op = "createOrder" /\ procs[j].op = "createOrder"
            /\ procs[i].snapshot.orderNumber = procs[j].snapshot.orderNumber )
          => ~(procs[i].saved /\ procs[j].saved)

\* C25's case: two requests were in flight together with the same number, both
\* have ended, and one of them stored its order.
C25_Witness ==
    \E i, j \in DOMAIN procs :
        /\ i \in procs[j].during
        /\ procs[i].op = "createOrder" /\ procs[j].op = "createOrder"
        /\ procs[i].snapshot.orderNumber = procs[j].snapshot.orderNumber
        /\ procs[i].done /\ procs[j].done
        /\ procs[i].saved # procs[j].saved
        /\ last.op = "createOrder" /\ last.code = 500

\* C26: verifyPayment marks an order paid only with a payment the gateway holds
\* for the gateway order the order is bound to: payment.order_id is the order's
\* razorpayOrderId.
C26_PaymentOfBoundGatewayOrder ==
    [][ ( /\ last'.op = "verifyPayment"
          /\ last'.order \in OrderIds
          /\ last'.saved )
        => PaymentsFetch(last'.payment).order_id = orders[last'.order].razorpayOrderId ]_vars

\* C27: an order that is paid stays paid: no operation sets isPaid back to false.
C27_PaidStaysPaid ==
    [][ \A o \in OrderIds : orders[o].isPaid => orders'[o].isPaid ]_vars

\* C27's case: a paid order has just been cancelled, and is still paid.
C27_Witness ==
    /\ last.op = "cancelOrder"
    /\ last.saved
    /\ last.order \in OrderIds
    /\ orders[last.order].status = "cancelled"
    /\ orders[last.order].isPaid

\* C28: a refund recorded as completed is never set back to pending, neither by
\* cancelOrder nor by a status update to cancelled on the still-paid order.
C28_CompletedRefundStays ==
    [][ \A o \in OrderIds :
          orders[o].refundStatus = "completed" => orders'[o].refundStatus # "pending" ]_vars

\* C29: the payment-failed event for an order that is already paid does not
\* cancel the order and leaves its captured paymentResult in place.
C29_FailedEventSparesPaid ==
    [][ ( /\ last'.op = "payment.failed"
          /\ last'.order \in OrderIds
          /\ orders[last'.order].isPaid )
        => ( /\ orders'[last'.order].status = orders[last'.order].status
             /\ orders'[last'.order].paymentResult = orders[last'.order].paymentResult ) ]_vars

\* C30: when cancelOrder and a confirmation of the payment (verifyPayment or the
\* payment-captured event) have read the same unpaid order while the other was
\* in flight, the order is not left cancelled and paid with no refund opened,
\* however their reads and saves fall.
C30_NoPaidCancelledWithoutRefund ==
    \A i, j \in DOMAIN procs :
        ( /\ i \in procs[j].during \/ j \in procs[i].during
          /\ procs[i].op = "cancelOrder"
          /\ procs[j].op \in {"verifyPayment", "payment.captured"}
          /\ procs[i].order = procs[j].order
          /\ ~procs[i].snapshot.isPaid /\ ~procs[j].snapshot.isPaid
          /\ procs[i].done /\ procs[j].done )
        => LET doc == orders[procs[i].order]
           IN  ~( /\ doc.status = "cancelled"
                  /\ doc.isPaid
                  /\ doc.refundStatus = Unset )

====
